---- MODULE Spec2Model ----
(***************************************************************************)
(* Model of ease_customized_calibration.py: the calibration frame loops     *)
(* (automated_calibration, manual_calibration), their dispatcher            *)
(* main_calibration, and the run_calibration loop of the controller that    *)
(* calls it.                                                                *)
(*                                                                          *)
(* Time.  Time is counted in ticks; one win.flip() lasts FrameTicks and the  *)
(* target's size has period Period ticks (sin(t)**2 has period pi).  The    *)
(* code reads the clock only in clock.getTime() - target_start_time, which  *)
(* is the variable elapsed, kept modulo Period.  It is read only on frames   *)
(* that draw the target, and every way to a drawn target sets               *)
(* target_start_time first, so it is kept at 0 while no target is drawn.    *)
(* Sizes.  Widths are in thousandths of the stimulus' original width.       *)
(***************************************************************************)
EXTENDS Integers, Sequences, FiniteSets, TLC

\* ---------------------------------------------------------------- constants
\* len(CALINORMP)
NumPoints == 5
\* len(GROW_SOUND_PATHS)
NumSounds == 4
\* default of the parameter cycles_before_calibrate
cycles_before_calibrate == 2
\* self.calibration_target_min, in thousandths
calibration_target_min == 200
\* every stimulus image has the same original width, in thousandths
StimOriginalWidth == 1000
\* one win.flip(), in ticks
FrameTicks == 1
\* longest list event.getKeys() returns in one frame
MaxKeys == 2
\* calls of update_calibration that run_calibration makes in a session
MaxRounds == 2
\* points the operator marks for a new calibration after a round
MaxMarked == 1
\* calls of update_calibration in the longer session of SpecCue
MaxCueRounds == 3

Points == 0 .. (NumPoints - 1)
Sounds == 1 .. NumSounds
NoSound == 0
\* previous_frame_width = None
None == -1

collect_key == "space"
exit_key == "return"
ATTENTION_GRAB_KEY == "a"

\* str.lower() on the key names of the model
Lower(key) == IF key = "A" THEN "a" ELSE key

\* self.numkey_dict: "0" hides the target, "1" .. "5" select a point
numkey_dict ==
    [key \in {"0", "1", "2", "3", "4", "5"} |->
        CASE key = "0" -> -1
          [] key = "1" -> 0
          [] key = "2" -> 1
          [] key = "3" -> 2
          [] key = "4" -> 3
          [] key = "5" -> 4]

\* str(x) for the numbers of the calibration points
Str(x) == <<"1", "2", "3", "4", "5">>[x]

\* the key names the operator can press
Keys == DOMAIN numkey_dict \cup {collect_key, exit_key, "a", "A"}

KeySeqs == UNION {[1 .. n -> Keys] : n \in 0 .. MaxKeys}

\* the sets of points the operator can mark on the result screen
MarkedSets == {m \in SUBSET Points : Cardinality(m) <= MaxMarked}

\* np.sin(t)**2 in thousandths, sampled at the ticks of one period
SinSq == <<0, 146, 500, 854, 1000, 854, 500, 146>>
Period == Len(SinSq)

\* t = (clock.getTime() - target_start_time) * self.shrink_speed, as an
\* index of SinSq
Phase(t) == (t % Period) + 1

\* clock.getTime() - target_start_time at the next frame, after one
\* win.flip(); idx and retry are the point and the retry set at that frame
Tick(t, idx, retry) == IF idx \in retry THEN (t + FrameTicks) % Period ELSE 0

\* self.targets.get_stim_original_size(i)[0]
get_stim_original_size(i) == StimOriginalWidth

\* newsize[0] = (np.sin(t)**2 + self.calibration_target_min) * original width
NewSize_NoMin(idx, t) == (SinSq[Phase(t)] * get_stim_original_size(idx)) \div 1000
NewSize(idx, t) ==
    ((SinSq[Phase(t)] + calibration_target_min) * get_stim_original_size(idx))
        \div 1000

\* target_min_width
target_min_width == (get_stim_original_size(0) * calibration_target_min) \div 1000

\* self.targets.get_stim(i): a negative index counts from the end
StimOf(idx) == IF idx < 0 THEN NumPoints + idx ELSE idx

\* target_curr_width < (2 * target_min_width)
ShrunkEnough_Always(width) == TRUE
ShrunkEnough(width) == width < 2 * target_min_width

\* cycle_counter >= cycles_before_calibrate
CycleThresholdReached_Early(counter) == counter + 1 >= cycles_before_calibrate
CycleThresholdReached(counter) == counter >= cycles_before_calibrate

\* cycle_counter after the sound branch: += 1 where the sound is stopped
CountCycle_OnGrowth(counter, play, stop) == IF play THEN counter + 1 ELSE counter
CountCycle(counter, play, stop) == IF stop THEN counter + 1 ELSE counter

\* pos_nums.pop() takes the last element
PopIndex_First(nums) == 1
PopIndex(nums) == Len(nums)

\* hasattr(self, 'automated_calib_done') after the calibration function that
\* main_calibration called has returned; mode is the function that ran
AutomatedCalibDone_NeverSet(done, mode) == done
AutomatedCalibDone(done, mode) == done \/ mode = "auto"

\* a list without its i-th element
Without(seq, i) == SubSeq(seq, 1, i - 1) \o SubSeq(seq, i + 1, Len(seq))

Ev(op, arg) == [op |-> op, arg |-> arg]

\* ------------------------------------------------- validation: constants
GAZE_TARGET_X_MAX == 600
GAZE_TARGET_Y_MAX == 400
\* the speed setting of the script, in pixels per frame
VALIDATION_MOVEMENT_SPEED == 5
\* the speed settings under which smoothly_move_target is checked
StepSizes == {VALIDATION_MOVEMENT_SPEED, 7, 700}
\* the speed setting under which the validation loop is checked: a run of the
\* four directions then has 8 frames
FastSpeed == 700
\* validation runs the operator asks for in a session
MaxRuns == 2

original_target_dir_ls == <<"LtR", "TtB", "RtL", "BtT">>

\* np.nan, as a coordinate of a gaze sample and as a statistic
NaN == -9999
\* a name that is read before it is bound (NameError)
Unbound == -9998

\* place_target_at_start(movement_dir, target): the value of target.pos
place_target_at_start(movement_dir) ==
    CASE movement_dir = "LtR" -> [x |-> -GAZE_TARGET_X_MAX, y |-> 0]
      [] movement_dir = "RtL" -> [x |-> GAZE_TARGET_X_MAX, y |-> 0]
      [] movement_dir = "TtB" -> [x |-> 0, y |-> GAZE_TARGET_Y_MAX]
      [] movement_dir = "BtT" -> [x |-> 0, y |-> -GAZE_TARGET_Y_MAX]

\* x_pos > GAZE_TARGET_X_MAX and its three likes: the target has left the
\* range on the side it moves to
PassedBoundary_AtBoundary(coord, max) == coord >= max
PassedBoundary(coord, max) == coord > max

\* smoothly_move_target(movement_dir, target, step_size): the new target.pos
\* and the value returned
smoothly_move_target(movement_dir, pos, step) ==
    CASE movement_dir = "LtR" ->
           [pos |-> [x |-> pos.x + step, y |-> 0],
            finished_moving |-> PassedBoundary(pos.x + step, GAZE_TARGET_X_MAX)]
      [] movement_dir = "RtL" ->
           [pos |-> [x |-> pos.x - step, y |-> 0],
            finished_moving |-> PassedBoundary(-(pos.x - step), GAZE_TARGET_X_MAX)]
      [] movement_dir = "TtB" ->
           [pos |-> [x |-> 0, y |-> pos.y - step],
            finished_moving |-> PassedBoundary(-(pos.y - step), GAZE_TARGET_Y_MAX)]
      [] movement_dir = "BtT" ->
           [pos |-> [x |-> 0, y |-> pos.y + step],
            finished_moving |-> PassedBoundary(pos.y + step, GAZE_TARGET_Y_MAX)]

\* the largest r with r * r <= v, by bisection between lo and hi
RECURSIVE ISqrtIn(_, _, _)
ISqrtIn(v, lo, hi) ==
    IF lo >= hi THEN lo
    ELSE LET mid == (lo + hi + 1) \div 2
         IN IF mid * mid <= v THEN ISqrtIn(v, mid, hi) ELSE ISqrtIn(v, lo, mid - 1)

Abs(n) == IF n < 0 THEN -n ELSE n

\* np.sqrt(delta_x**2 + delta_y**2), in whole pixels
EucDist(delta_x, delta_y) ==
    ISqrtIn(delta_x * delta_x + delta_y * delta_y, 0, Abs(delta_x) + Abs(delta_y))

RECURSIVE SeqSum(_)
SeqSum(seq) == IF seq = <<>> THEN 0 ELSE Head(seq) + SeqSum(Tail(seq))

\* np.mean(gaze_to_target_dists), in whole pixels
Mean(dists) == SeqSum(dists) \div Len(dists)

\* np.std(gaze_to_target_dists): the population formula, in whole pixels
Std(dists) ==
    LET n == Len(dists)
        sum == SeqSum(dists)
        sumsq == SeqSum([i \in 1 .. n |-> dists[i] * dists[i]])
        variance == (n * sumsq - sum * sum) \div (n * n)
    IN ISqrtIn(variance, 0, sum)

\* sum(gaze_on_screen_inds) / len(gaze_on_screen_inds), in thousandths
PropOnScreen(inds) == (SeqSum(inds) * 1000) \div Len(inds)

\* controller.get_current_gaze_position(): the samples of the model; a sample
\* the tracker could not take is (np.nan, np.nan)
GazeSamples == {<<NaN, NaN>>, <<0, 0>>}

\* np.nan not in currentGazePosition
NanNotIn_Never(gaze) == TRUE
NanNotIn(gaze) == \A i \in 1 .. Len(gaze) : gaze[i] # NaN

\* ---------------------------------------------------------------- state
VARIABLES
    pc,                    \* where the session is
    rounds,                \* calls of update_calibration so far
    automated_calib_done,  \* hasattr(self, 'automated_calib_done')
    show_att_grabber,      \* self.show_att_grabber
    retry_points,          \* self.retry_points
    stim_size,             \* self.targets.get_stim(i).size[0]
    collect_when_shrunk,
    allow_grow_sound,
    target_is_growing,
    previous_frame_width,
    current_point_index,
    in_calibration,
    elapsed,               \* clock.getTime() - target_start_time
    pos_nums,
    target_activated,
    cycle_counter,
    grow_sound,            \* the sound grow_sound is bound to
    playing,               \* the sounds that are playing
    calls,                 \* what the last step did, in order
    exit_pressed,          \* the operator pressed exit_key during the last frame
    activated,             \* points automated_calibration has activated
    collected,             \* points automated_calibration has collected
    step_size,             \* the speed passed to smoothly_move_target
    recording,             \* controller.start_recording has been called
    target_dir_ls,
    target_dir,
    target_pos,            \* gaze_target.pos
    target_is_moving,
    validation_is_finished,
    gaze_to_target_dists,
    gaze_on_screen_inds,
    mean_target_dist,
    std_target_dist,
    prop_on_screen,
    val_grow_sound,        \* the module's global grow_sound
    saved,                 \* the rows written to the validation file
    runs,                  \* validation runs started
    dir_frames,            \* frames since target_dir was popped
    started                \* the directions popped in this run

vars == <<pc, rounds, automated_calib_done, show_att_grabber, retry_points, stim_size,
          collect_when_shrunk, allow_grow_sound, target_is_growing,
          previous_frame_width, current_point_index, in_calibration, elapsed,
          pos_nums, target_activated, cycle_counter,
          grow_sound, playing, calls, exit_pressed, activated, collected,
          step_size, recording, target_dir_ls, target_dir, target_pos,
          target_is_moving, validation_is_finished, gaze_to_target_dists,
          gaze_on_screen_inds, mean_target_dist, std_target_dist,
          prop_on_screen, val_grow_sound, saved, runs, dir_frames, started>>

\* the state of the validation part
valvars == <<step_size, recording, target_dir_ls, target_dir, target_pos,
             target_is_moving, validation_is_finished, gaze_to_target_dists,
             gaze_on_screen_inds, mean_target_dist, std_target_dist,
             prop_on_screen, val_grow_sound, saved, runs, dir_frames, started>>

\* the state of the calibration part that the validation part leaves alone
calvars == <<rounds, automated_calib_done, show_att_grabber, retry_points,
             stim_size, collect_when_shrunk, allow_grow_sound, target_is_growing,
             previous_frame_width, current_point_index, in_calibration, elapsed,
             pos_nums, target_activated, cycle_counter, grow_sound,
             exit_pressed, activated, collected>>

\* ---------------------------------------------------------------- helpers
\* the locals of a calibration function at its first loop test
EnterLoop ==
    /\ collect_when_shrunk' = FALSE
    /\ allow_grow_sound' = TRUE
    /\ target_is_growing' = FALSE
    /\ previous_frame_width' = None
    /\ current_point_index' = -1
    /\ in_calibration' = TRUE
    /\ elapsed' = 0
    /\ target_activated' = FALSE
    /\ cycle_counter' = 0
    /\ grow_sound' = NoSound

\* self._collect_calibration_data(p): the service drops an accepted point
\* from the retry set
CollectCalibrationData(retry, idx, accepted) ==
    IF accepted THEN retry \ {StimOf(idx)} ELSE retry

\* the sound branch of a frame: what is played or stopped
\* (previous_frame_width is not None is part of both)
Compared(drawn, prev) == drawn /\ prev # None
IsGrowing(prev, new) == prev < new
PlayNow_NoDebounce(growing, allow) == growing
PlayNow(growing, allow) == growing /\ allow
StopNow_Never(growing, allow) == FALSE
StopNow(growing, allow) == ~growing /\ ~allow

\* if self.show_att_grabber: grabber.draw(); win.flip(); continue
GrabberFrame_Never(att) == FALSE
GrabberFrame(att) == att

\* one key of the for loop of manual_calibration; k holds the locals the
\* loop changes, k.done that the loop has hit its break
HandleKey_NoRetryTest(k, key) ==
    IF k.done THEN k
    ELSE IF key \in DOMAIN numkey_dict
        THEN [k EXCEPT !.idx = numkey_dict[key], !.elapsed = 0]
    ELSE IF key = collect_key
        THEN [k EXCEPT !.collect = TRUE,
                       !.log = Append(@, Ev("request", k.idx))]
    ELSE IF key = exit_key
        THEN [k EXCEPT !.incal = FALSE, !.done = TRUE,
                       !.log = Append(@, Ev("exit", 0))]
    ELSE IF Lower(key) = ATTENTION_GRAB_KEY
        THEN [k EXCEPT !.att = ~k.att,
                       !.log = Append(@, Ev(IF k.att THEN "grabber.pause"
                                                     ELSE "grabber.play", 0))]
    ELSE k

HandleKey(k, key) ==
    IF k.done THEN k
    ELSE IF key \in DOMAIN numkey_dict
        THEN [k EXCEPT !.idx = numkey_dict[key], !.elapsed = 0]
    ELSE IF key = collect_key /\ k.idx \in retry_points
        THEN [k EXCEPT !.collect = TRUE,
                       !.log = Append(@, Ev("request", k.idx))]
    ELSE IF key = exit_key
        THEN [k EXCEPT !.incal = FALSE, !.done = TRUE,
                       !.log = Append(@, Ev("exit", 0))]
    ELSE IF Lower(key) = ATTENTION_GRAB_KEY
        THEN [k EXCEPT !.att = ~k.att,
                       !.log = Append(@, Ev(IF k.att THEN "grabber.pause"
                                                     ELSE "grabber.play", 0))]
    ELSE k

RECURSIVE HandleKeys(_, _)
HandleKeys(k, keys) ==
    IF keys = <<>> THEN k
    ELSE HandleKeys(HandleKey(k, Head(keys)), Tail(keys))

\* the locals of manual_calibration that its for loop over the keys changes
LoopLocals ==
    [idx |-> current_point_index,
     elapsed |-> elapsed,
     collect |-> collect_when_shrunk,
     incal |-> TRUE,
     att |-> show_att_grabber,
     done |-> FALSE,
     log |-> <<>>]

\* ---------------------------------------------------------------- actions
\* the session before run_calibration, with the speed setting speed and the
\* retry set retry
InitSessionWith(speed, retry) ==
    /\ pc = "update"
    /\ rounds = 0
    /\ automated_calib_done = FALSE
    /\ show_att_grabber = FALSE
    /\ retry_points = retry
    /\ stim_size = [i \in Points |-> StimOriginalWidth]
    /\ collect_when_shrunk = FALSE
    /\ allow_grow_sound = TRUE
    /\ target_is_growing = FALSE
    /\ previous_frame_width = None
    /\ current_point_index = -1
    /\ in_calibration = FALSE
    /\ elapsed = 0
    /\ pos_nums = <<>>
    /\ target_activated = FALSE
    /\ cycle_counter = 0
    /\ grow_sound = NoSound
    /\ playing = {}
    /\ calls = <<>>
    /\ exit_pressed = FALSE
    /\ activated = <<>>
    /\ collected = <<>>
    /\ step_size = speed
    /\ recording = FALSE
    /\ target_dir_ls = <<>>
    /\ target_dir = ""
    /\ target_pos = [x |-> 0, y |-> 0]
    /\ target_is_moving = FALSE
    /\ validation_is_finished = FALSE
    /\ gaze_to_target_dists = <<>>
    /\ gaze_on_screen_inds = <<>>
    /\ mean_target_dist = Unbound
    /\ std_target_dist = Unbound
    /\ prop_on_screen = Unbound
    /\ val_grow_sound = 1
    /\ saved = <<>>
    /\ runs = 0
    /\ dir_frames = 0
    /\ started = <<>>

\* run_calibration starts with every point in the retry set
InitSession(speed) == InitSessionWith(speed, Points)

Init == InitSession(VALIDATION_MOVEMENT_SPEED)

\* main_calibration up to the first loop test of the function it calls, in a
\* session of at most limit calls
MainCalibrationWithin(limit) ==
    /\ pc = "update"
    /\ rounds < limit
    /\ rounds' = rounds + 1
    /\ show_att_grabber' = FALSE
    /\ EnterLoop
    /\ IF ~automated_calib_done
       THEN /\ pc' = "auto"
            /\ pos_nums' = [x \in 1 .. NumPoints |-> Str(x)]
       ELSE /\ pc' = "manual"
            /\ pos_nums' = <<>>
    /\ calls' = <<>>
    /\ exit_pressed' = FALSE
    /\ activated' = <<>>
    /\ collected' = <<>>
    /\ UNCHANGED <<automated_calib_done, retry_points, stim_size, playing>>
    /\ UNCHANGED valvars

MainCalibration == MainCalibrationWithin(MaxRounds)

\* one pass of the while loop of manual_calibration on the keys that
\* event.getKeys() returns: the values it leaves in the variables, up to the
\* sound that np.random.choice draws and the answer of the service
ManualPlan(keys) ==
    LET k == HandleKeys(LoopLocals, keys)
        grabber == GrabberFrame(k.att)
        drawn == ~grabber /\ k.idx \in retry_points
        newsize == NewSize(k.idx, k.elapsed)
        sized == IF drawn THEN [stim_size EXCEPT ![k.idx] = newsize]
                          ELSE stim_size
        cmp == Compared(drawn, previous_frame_width)
        growing == IF cmp THEN IsGrowing(previous_frame_width, newsize)
                          ELSE target_is_growing
        play == cmp /\ PlayNow(growing, allow_grow_sound)
        stop == cmp /\ ~play /\ StopNow(growing, allow_grow_sound)
        target_curr_width == sized[StimOf(k.idx)]
        collect == ~grabber /\ k.collect /\ ShrunkEnough(target_curr_width)
        idx == IF collect THEN -1 ELSE k.idx
    IN [current_point_index |-> idx,
        elapsed |-> Tick(k.elapsed, idx, retry_points),
        in_calibration |-> k.incal,
        show_att_grabber |-> k.att,
        collect_when_shrunk |-> IF collect THEN FALSE ELSE k.collect,
        stim_size |-> sized,
        target_is_growing |-> growing,
        allow_grow_sound |-> IF play THEN FALSE
                             ELSE IF stop THEN TRUE ELSE allow_grow_sound,
        previous_frame_width |-> IF drawn THEN newsize ELSE previous_frame_width,
        play |-> play,
        stop |-> stop,
        collect |-> collect,
        collect_index |-> k.idx,
        calls |-> k.log
            \o (IF grabber THEN <<Ev("grabber.draw", 0)>> ELSE <<>>)
            \o (IF drawn THEN <<Ev("setSize", newsize)>> ELSE <<>>)]

ManualFrame(keys) ==
    /\ pc = "manual"
    /\ in_calibration
    /\ \E f \in {ManualPlan(keys)} :
       \E snd \in IF f.play THEN Sounds ELSE {NoSound},
          accepted \in IF f.collect THEN BOOLEAN ELSE {FALSE} :
       /\ current_point_index' = f.current_point_index
       /\ elapsed' = f.elapsed
       /\ in_calibration' = f.in_calibration
       /\ show_att_grabber' = f.show_att_grabber
       /\ collect_when_shrunk' = f.collect_when_shrunk
       /\ stim_size' = f.stim_size
       /\ target_is_growing' = f.target_is_growing
       /\ allow_grow_sound' = f.allow_grow_sound
       /\ previous_frame_width' = f.previous_frame_width
       /\ grow_sound' = IF f.play THEN snd ELSE grow_sound
       /\ playing' = IF f.play THEN playing \cup {snd}
                     ELSE IF f.stop THEN playing \ {grow_sound} ELSE playing
       /\ retry_points' =
             IF f.collect
             THEN CollectCalibrationData(retry_points, f.collect_index, accepted)
             ELSE retry_points
       /\ calls' = f.calls
             \o (IF f.play THEN <<Ev("play", snd)>> ELSE <<>>)
             \o (IF f.stop THEN <<Ev("stop", grow_sound)>> ELSE <<>>)
             \o (IF f.collect
                 THEN <<Ev("wait", 0), Ev("collect", f.collect_index)>>
                 ELSE <<>>)
    /\ exit_pressed' = (\E i \in 1 .. Len(keys) : keys[i] = exit_key)
    /\ UNCHANGED <<pc, rounds, automated_calib_done, pos_nums, target_activated,
                   cycle_counter, activated, collected>>
    /\ UNCHANGED valvars

\* one pass of the while loop of automated_calibration; exit_down: the
\* operator presses exit_key during the frame (the function never reads keys)
AutomatedFrame(exit_down) ==
    /\ pc = "auto"
    /\ in_calibration
    /\ LET activate == ~target_activated /\ pos_nums # <<>>
           pos_num == pos_nums[PopIndex(pos_nums)]
           left == IF activate THEN Without(pos_nums, PopIndex(pos_nums))
                               ELSE pos_nums
           idx == IF activate THEN numkey_dict[pos_num] ELSE current_point_index
           t == IF activate THEN 0 ELSE elapsed
           active == activate \/ target_activated
           drawn == idx \in retry_points
           newsize == NewSize(idx, t)
           sized == IF drawn THEN [stim_size EXCEPT ![idx] = newsize]
                             ELSE stim_size
           cmp == Compared(drawn, previous_frame_width)
           growing == IF cmp THEN IsGrowing(previous_frame_width, newsize)
                             ELSE target_is_growing
           play == cmp /\ PlayNow(growing, allow_grow_sound)
           stop == cmp /\ ~play /\ StopNow(growing, allow_grow_sound)
           counter == CountCycle(cycle_counter, play, stop)
           request == drawn /\ CycleThresholdReached(counter)
           pending == collect_when_shrunk \/ request
           target_curr_width == sized[StimOf(idx)]
           collect == pending /\ ShrunkEnough(target_curr_width)
           still == IF collect THEN FALSE ELSE active
       IN
       \E snd \in IF play THEN Sounds ELSE {NoSound},
          accepted \in IF collect THEN BOOLEAN ELSE {FALSE} :
       /\ pos_nums' = left
       /\ exit_pressed' = exit_down
       /\ stim_size' = sized
       /\ target_is_growing' = growing
       /\ allow_grow_sound' = IF play THEN FALSE
                              ELSE IF stop THEN TRUE ELSE allow_grow_sound
       /\ grow_sound' = IF play THEN snd ELSE grow_sound
       /\ playing' = IF play THEN playing \cup {snd}
                     ELSE IF stop THEN playing \ {grow_sound} ELSE playing
       /\ previous_frame_width' = IF drawn THEN newsize ELSE previous_frame_width
       /\ calls' = (IF activate THEN <<Ev("activate", idx)>> ELSE <<>>)
             \o (IF drawn THEN <<Ev("setSize", newsize)>> ELSE <<>>)
             \o (IF play THEN <<Ev("play", snd)>> ELSE <<>>)
             \o (IF stop THEN <<Ev("stop", grow_sound)>> ELSE <<>>)
             \o (IF request THEN <<Ev("request", idx)>> ELSE <<>>)
             \o (IF collect
                 THEN <<Ev("wait", 0), Ev("collect", idx)>>
                 ELSE <<>>)
       /\ activated' = IF activate THEN Append(activated, idx) ELSE activated
       /\ IF collect
          THEN /\ retry_points' = CollectCalibrationData(retry_points, idx, accepted)
               /\ current_point_index' = -1
               /\ collect_when_shrunk' = FALSE
               /\ cycle_counter' = 0
               /\ collected' = Append(collected, [point |-> StimOf(idx),
                                                  cycles |-> counter])
               /\ elapsed' = Tick(t, -1, retry_points)
          ELSE /\ retry_points' = retry_points
               /\ current_point_index' = idx
               /\ collect_when_shrunk' = pending
               /\ cycle_counter' = counter
               /\ collected' = collected
               /\ elapsed' = Tick(t, idx, retry_points)
       /\ target_activated' = still
       /\ in_calibration' = ~(~still /\ left = <<>>)
    /\ UNCHANGED <<pc, rounds, automated_calib_done, show_att_grabber>>
    /\ UNCHANGED valvars

\* the loop test fails: the calibration function returns to main_calibration,
\* and main_calibration to run_calibration; the function's locals are gone
Return ==
    /\ pc \in {"auto", "manual"}
    /\ ~in_calibration
    /\ pc' = "results"
    /\ automated_calib_done' = AutomatedCalibDone(automated_calib_done, pc)
    /\ collect_when_shrunk' = FALSE
    /\ allow_grow_sound' = TRUE
    /\ target_is_growing' = FALSE
    /\ previous_frame_width' = None
    /\ current_point_index' = -1
    /\ elapsed' = 0
    /\ pos_nums' = <<>>
    /\ target_activated' = FALSE
    /\ cycle_counter' = 0
    /\ grow_sound' = NoSound
    /\ calls' = <<>>
    /\ exit_pressed' = FALSE
    /\ UNCHANGED <<rounds, show_att_grabber, retry_points, stim_size,
                   in_calibration, playing, activated, collected>>
    /\ UNCHANGED valvars

\* run_calibration after update_calibration: the operator marks the points
\* to calibrate again and accepts, or gives up with escape; in a session of
\* at most limit calls of update_calibration
ShowResultsWithin(limit, marked, escape) ==
    /\ pc = "results"
    /\ rounds = limit => marked = {}
    /\ retry_points' = marked
    /\ pc' = IF escape THEN "failed"
             ELSE IF marked = {} THEN "calibrated" ELSE "update"
    /\ calls' = <<>>
    /\ exit_pressed' = FALSE
    /\ UNCHANGED <<rounds, automated_calib_done, show_att_grabber, stim_size,
                   collect_when_shrunk, allow_grow_sound, target_is_growing,
                   previous_frame_width, current_point_index, in_calibration,
                   elapsed, pos_nums, target_activated, cycle_counter,
                   grow_sound, playing, activated, collected>>
    /\ UNCHANGED valvars

ShowResults(marked, escape) == ShowResultsWithin(MaxRounds, marked, escape)

Next ==
    \/ MainCalibration
    \/ \E exit_down \in BOOLEAN : AutomatedFrame(exit_down)
    \/ \E keys \in KeySeqs : ManualFrame(keys)
    \/ Return
    \/ \E marked \in MarkedSets, escape \in BOOLEAN : ShowResults(marked, escape)

Spec == Init /\ [][Next]_vars

\* the first round alone: main_calibration runs automated_calibration
NextAuto ==
    \/ MainCalibration /\ ~automated_calib_done
    \/ \E exit_down \in BOOLEAN : AutomatedFrame(exit_down)
    \/ Return /\ pc = "auto"

SpecAuto == Init /\ [][NextAuto]_vars

\* win.flip() returns at every refresh, so the loop keeps running
LiveAuto == SpecAuto /\ WF_vars(NextAuto)

\* the first round entered with any retry set: automated_calibration reads
\* self.retry_points as it finds it
InitRetry ==
    \E retry \in SUBSET Points : InitSessionWith(VALIDATION_MOVEMENT_SPEED, retry)

SpecRetry == InitRetry /\ [][NextAuto]_vars

LiveRetry == SpecRetry /\ WF_vars(NextAuto)

\* a longer session in which the operator, in the manual rounds, only selects
\* the first point and ends the round
CueKeySeqs == {<<>>, <<"1">>, <<exit_key>>}

NextCue ==
    \/ MainCalibrationWithin(MaxCueRounds)
    \/ \E exit_down \in BOOLEAN : AutomatedFrame(exit_down)
    \/ \E keys \in CueKeySeqs : ManualFrame(keys)
    \/ Return
    \/ \E marked \in MarkedSets, escape \in BOOLEAN :
          ShowResultsWithin(MaxCueRounds, marked, escape)

SpecCue == Init /\ [][NextCue]_vars

\* ------------------------------------------------- validation: actions
\* if not success: core.quit()
Quit_Ignored ==
    /\ pc = "failed"
    /\ pc' = "calibrated"
    /\ calls' = <<>>
    /\ UNCHANGED <<playing, calvars, valvars>>

Quit ==
    /\ pc = "failed"
    /\ pc' = "quit"
    /\ calls' = <<Ev("core.quit", 0)>>
    /\ UNCHANGED <<playing, calvars, valvars>>

\* the state a validation run starts in: the first lines of the body of
\* while repeat_validation
BeginRun ==
    /\ target_dir_ls' = original_target_dir_ls
    /\ gaze_to_target_dists' = <<>>
    /\ gaze_on_screen_inds' = <<>>
    /\ runs' = runs + 1
    /\ dir_frames' = 0
    /\ started' = <<>>

\* run_calibration has succeeded: the script up to the first test of
\* while not validation_is_finished
StartRecording ==
    /\ pc = "calibrated"
    /\ pc' = "run"
    /\ recording' = TRUE
    /\ target_is_moving' = FALSE
    /\ validation_is_finished' = FALSE
    /\ BeginRun
    /\ calls' = <<Ev("start_recording", 0)>>
    /\ UNCHANGED <<playing, calvars, step_size, target_dir, target_pos,
                   mean_target_dist, std_target_dist, prop_on_screen,
                   val_grow_sound, saved>>

\* one pass of while not validation_is_finished; gaze is what
\* get_current_gaze_position returns
ValidationFrame(gaze) ==
    /\ pc = "run"
    /\ ~validation_is_finished
    /\ LET start == ~target_is_moving
           dir == IF start THEN target_dir_ls[PopIndex(target_dir_ls)]
                           ELSE target_dir
           left == IF start THEN Without(target_dir_ls, PopIndex(target_dir_ls))
                            ELSE target_dir_ls
           placed == IF start THEN place_target_at_start(dir) ELSE target_pos
           moved == smoothly_move_target(dir, placed, step_size)
           moving == ~moved.finished_moving
           valid == NanNotIn(gaze)
           euc_dist == EucDist(gaze[1] - moved.pos.x, gaze[2] - moved.pos.y)
           finished == left = <<>> /\ ~moving
       IN
       \E snd \in IF start THEN Sounds ELSE {NoSound} :
       /\ target_dir' = dir
       /\ target_dir_ls' = left
       /\ target_pos' = moved.pos
       /\ target_is_moving' = moving
       /\ val_grow_sound' = IF start THEN snd ELSE val_grow_sound
       /\ playing' = IF start THEN (playing \ {val_grow_sound}) \cup {snd}
                              ELSE playing
       /\ gaze_on_screen_inds' = Append(gaze_on_screen_inds, IF valid THEN 1 ELSE 0)
       /\ gaze_to_target_dists' = IF valid THEN Append(gaze_to_target_dists, euc_dist)
                                           ELSE gaze_to_target_dists
       /\ validation_is_finished' = finished
       /\ pc' = IF finished THEN "summary" ELSE "run"
       /\ dir_frames' = IF start THEN 1 ELSE dir_frames + 1
       /\ started' = IF start THEN Append(started, dir) ELSE started
       /\ calls' = (IF start
                    THEN <<Ev("pop", dir), Ev("stop", val_grow_sound), Ev("play", snd)>>
                    ELSE <<>>)
              \o <<Ev("move", dir), Ev("sample", gaze)>>
    /\ UNCHANGED <<calvars, step_size, recording, mean_target_dist,
                   std_target_dist, prop_on_screen, saved, runs>>

\* std_target_dist after the branch on gaze_to_target_dists: the else branch
\* binds mean_target_dist only
StdAfterRun_Missing(dists, std) == IF dists # <<>> THEN Std(dists) ELSE NaN
StdAfterRun(dists, std) == IF dists # <<>> THEN Std(dists) ELSE std

\* the run is over: the statistics and the message to the operator
ShowSummary ==
    /\ pc = "summary"
    /\ mean_target_dist' = IF gaze_to_target_dists # <<>>
                           THEN Mean(gaze_to_target_dists) ELSE NaN
    /\ std_target_dist' = StdAfterRun(gaze_to_target_dists, std_target_dist)
    /\ prop_on_screen' = IF gaze_on_screen_inds # <<>>
                         THEN PropOnScreen(gaze_on_screen_inds) ELSE NaN
    /\ pc' = "decision"
    /\ calls' = <<Ev("show", 0)>>
    /\ UNCHANGED <<playing, calvars, step_size, recording, target_dir_ls,
                   target_dir, target_pos, target_is_moving,
                   validation_is_finished, gaze_to_target_dists,
                   gaze_on_screen_inds, val_grow_sound, saved, runs, dir_frames,
                   started>>

DecisionKeys == {"space", "r", "R"}

\* while wait_for_press, on the key that ends it; a repeat goes on to the
\* first test of while not validation_is_finished of the next run
OperatorDecision(key) ==
    /\ pc = "decision"
    /\ IF key = "space"
       THEN /\ pc' = "save"
            /\ UNCHANGED <<validation_is_finished, target_dir_ls,
                           gaze_to_target_dists, gaze_on_screen_inds, runs,
                           dir_frames, started>>
       ELSE /\ runs < MaxRuns
            /\ pc' = "run"
            /\ validation_is_finished' = FALSE
            /\ BeginRun
    /\ calls' = <<Ev("key", key)>>
    /\ UNCHANGED <<playing, calvars, step_size, recording, target_dir, target_pos,
                   target_is_moving, mean_target_dist, std_target_dist,
                   prop_on_screen, val_grow_sound, saved>>

\* the script after the validation loop: the row of the three statistics is
\* built and written, the recording stopped; reading a name that was never
\* bound raises NameError and ends the script there
SaveValidationData ==
    /\ pc = "save"
    /\ IF Unbound \in {mean_target_dist, std_target_dist, prop_on_screen}
       THEN /\ pc' = "error"
            /\ calls' = <<Ev("NameError", 0)>>
            /\ UNCHANGED <<saved, recording>>
       ELSE /\ pc' = "closed"
            /\ saved' = Append(saved, [mean |-> mean_target_dist,
                                        std |-> std_target_dist,
                                        prop |-> prop_on_screen])
            /\ recording' = FALSE
            /\ calls' = <<Ev("to_csv", 0), Ev("stop_recording", 0)>>
    /\ UNCHANGED <<playing, calvars, step_size, target_dir_ls, target_dir,
                   target_pos, target_is_moving, validation_is_finished,
                   gaze_to_target_dists, gaze_on_screen_inds, mean_target_dist,
                   std_target_dist, prop_on_screen, val_grow_sound, runs,
                   dir_frames, started>>

\* the whole script with the speed setting FastSpeed, the operator marking no
\* point after the automated round
InitVal == InitSession(FastSpeed)

NextVal ==
    \/ NextAuto
    \/ \E escape \in BOOLEAN : ShowResults({}, escape)
    \/ Quit
    \/ StartRecording
    \/ \E gaze \in GazeSamples : ValidationFrame(gaze)
    \/ ShowSummary
    \/ \E key \in DecisionKeys : OperatorDecision(key)
    \/ SaveValidationData

SpecVal == InitVal /\ [][NextVal]_vars

\* win.flip() returns at every refresh, so the validation loop keeps running
LiveVal ==
    SpecVal /\ WF_vars(\E gaze \in GazeSamples : ValidationFrame(gaze))

\* smoothly_move_target alone: a direction and a speed setting are drawn, the
\* target is placed at its start and moved frame by frame until the function
\* returns True
InitMove ==
    \E speed \in StepSizes, movement_dir \in {"LtR", "TtB", "RtL", "BtT"} :
       /\ pc = "move"
       /\ rounds = 0
       /\ automated_calib_done = FALSE
       /\ show_att_grabber = FALSE
       /\ retry_points = Points
       /\ stim_size = [i \in Points |-> StimOriginalWidth]
       /\ collect_when_shrunk = FALSE
       /\ allow_grow_sound = TRUE
       /\ target_is_growing = FALSE
       /\ previous_frame_width = None
       /\ current_point_index = -1
       /\ in_calibration = FALSE
       /\ elapsed = 0
       /\ pos_nums = <<>>
       /\ target_activated = FALSE
       /\ cycle_counter = 0
       /\ grow_sound = NoSound
       /\ playing = {}
       /\ calls = <<>>
       /\ exit_pressed = FALSE
       /\ activated = <<>>
       /\ collected = <<>>
       /\ step_size = speed
       /\ recording = FALSE
       /\ target_dir_ls = <<>>
       /\ target_dir = movement_dir
       /\ target_pos = place_target_at_start(movement_dir)
       /\ target_is_moving = TRUE
       /\ validation_is_finished = FALSE
       /\ gaze_to_target_dists = <<>>
       /\ gaze_on_screen_inds = <<>>
       /\ mean_target_dist = Unbound
       /\ std_target_dist = Unbound
       /\ prop_on_screen = Unbound
       /\ val_grow_sound = 1
       /\ saved = <<>>
       /\ runs = 0
       /\ dir_frames = 0
       /\ started = <<movement_dir>>

MoveTarget ==
    /\ pc = "move"
    /\ target_is_moving
    /\ LET moved == smoothly_move_target(target_dir, target_pos, step_size)
       IN /\ target_pos' = moved.pos
          /\ target_is_moving' = ~moved.finished_moving
    /\ dir_frames' = dir_frames + 1
    /\ calls' = <<Ev("move", target_dir)>>
    /\ UNCHANGED <<pc, playing, calvars, step_size, recording, target_dir_ls,
                   target_dir, validation_is_finished, gaze_to_target_dists,
                   gaze_on_screen_inds, mean_target_dist, std_target_dist,
                   prop_on_screen, val_grow_sound, saved, runs, started>>

SpecMove == InitMove /\ [][MoveTarget]_vars

\* ---------------------------------------------------------------- claims
\* the calls of one kind among the calls of a step
Calls(log, op) == SelectSeq(log, LAMBDA e : e.op = op)
HasCall(log, op) == Calls(log, op) # <<>>

\* the points in the order automated_calibration is to visit them
ReverseOrder == [i \in 1 .. NumPoints |-> NumPoints - i]

\* automated_calibration has left its loop
AutoFinished == pc = "auto" /\ ~in_calibration

AllCollectedOnce ==
    /\ Len(collected) = NumPoints
    /\ \A p \in Points :
          Cardinality({i \in 1 .. Len(collected) : collected[i].point = p}) = 1
    /\ \A i \in 1 .. Len(collected) : collected[i].cycles = cycles_before_calibrate

\* C1: with all 5 points in the retry set and a threshold of 2 cycles, automated
\* calibration ends, and when it ends every point has been collected exactly
\* once, each after exactly 2 counted grow/shrink cycles of its target
C1_AutomatedCollectsEachPointOnce ==
    /\ [](AutoFinished => AllCollectedOnce)
    /\ <>AutoFinished

C1_Witness == AutoFinished /\ Len(collected) = NumPoints /\ retry_points = {}

\* C2: in automated mode a collection request is never pending or made while
\* cycle_counter is below the threshold; the counter grows only by one, only on
\* a frame where the target turns from growing to shrinking, and is 0 after a
\* collection
C2_NoRequestBelowThreshold ==
    [][pc' = "auto" =>
        /\ collect_when_shrunk' => cycle_counter' >= cycles_before_calibrate
        /\ HasCall(calls', "request") =>
              IF HasCall(calls', "collect")
              THEN collected'[Len(collected')].cycles >= cycles_before_calibrate
              ELSE cycle_counter' >= cycles_before_calibrate
        /\ cycle_counter' > cycle_counter =>
              /\ cycle_counter' = cycle_counter + 1
              /\ target_is_growing /\ ~target_is_growing'
        /\ cycle_counter' < cycle_counter => HasCall(calls', "collect")
        /\ HasCall(calls', "collect") => cycle_counter' = 0]_vars

C2_Witness ==
    /\ pc = "auto"
    /\ collect_when_shrunk
    /\ cycle_counter = cycles_before_calibrate
    /\ HasCall(calls, "stop")

\* C3: automated mode activates the points in reverse configuration order, each
\* once, and activates a point only when every point before it is collected
C3_ReverseOrderOneAtATime ==
    /\ Len(activated) <= NumPoints
    /\ activated = SubSeq(ReverseOrder, 1, Len(activated))
    /\ Len(collected) <= Len(activated)
    /\ Len(activated) <= Len(collected) + 1
    /\ \A i \in 1 .. Len(collected) : collected[i].point = activated[i]
    /\ AutoFinished => Len(activated) = NumPoints

C3_Witness ==
    /\ pc = "auto"
    /\ Len(activated) = NumPoints
    /\ Len(collected) = NumPoints - 1
    /\ current_point_index = 0

\* C7: an exit-key press during automated calibration ends the calibration on
\* that frame, with no collection on it
C7_ExitEndsAutomated ==
    (pc = "auto" /\ exit_pressed) => (~in_calibration /\ ~HasCall(calls, "collect"))

\* the collect call of a step, and the index it was made for
Collects(log) == Calls(log, "collect")
CollectedIndex(log) == Collects(log)[1].arg

\* core.wait(_focus_time) comes right before the collect call
WaitsBeforeCollect(log) ==
    \E i \in 1 .. Len(log) - 1 : log[i].op = "wait" /\ log[i + 1].op = "collect"

\* C4: in both modes a frame makes at most one collect call, only for a request
\* that was pending or made on that frame, and the request is no longer pending
\* after it; the call comes after the settle delay, on a frame where the width
\* read for the target is below twice the minimum width
C4_CollectOncePerRequestWhenShrunk ==
    [][/\ Len(Collects(calls')) <= 1
       /\ HasCall(calls', "collect") =>
            /\ collect_when_shrunk \/ HasCall(calls', "request")
            /\ ~collect_when_shrunk'
            /\ stim_size'[StimOf(CollectedIndex(calls'))] < 2 * target_min_width
            /\ WaitsBeforeCollect(calls')]_vars

C4_Witness ==
    /\ pc = "manual"
    /\ HasCall(calls, "collect")
    /\ ~HasCall(calls, "request")
    /\ current_point_index = -1

\* C5: a collect call is made for the active point, which is in the retry set,
\* and leaves no point active
C5_CollectOnlyActiveRetryPoint ==
    [][HasCall(calls', "collect") =>
         /\ CollectedIndex(calls') \in retry_points
         /\ current_point_index' = -1]_vars

\* C6: on the frame that dequeues the exit key in manual mode the calibration
\* ends and no collect call is made
C6_ExitDiscardsPending ==
    (pc = "manual" /\ exit_pressed) =>
        (~in_calibration /\ ~HasCall(calls, "collect"))

\* the keys that select a point or hide the target
NumKeys == DOMAIN numkey_dict

\* C8: when a request is pending for the active point and the operator selects
\* another index before the collection, the request is discarded: the frame of
\* that key collects no sample for the newly selected index
C8_SwitchDiscardsPending ==
    (/\ pc = "manual" /\ in_calibration
     /\ collect_when_shrunk
     /\ current_point_index \in retry_points)
    => \A key \in NumKeys :
          numkey_dict[key] # current_point_index => ~ManualPlan(<<key>>).collect

\* the i-th key of keys is reached by the for loop while the selected index
\* is not in the retry set
NotInRetryAt(keys, i) ==
    LET k == HandleKeys(LoopLocals, SubSeq(keys, 1, i - 1))
    IN ~k.done /\ k.idx \notin retry_points

\* C9: a collect key received while the selected index is not in the retry set
\* (or no point is selected) changes nothing: the frame is the frame the same
\* keys without it make, with the same calls
C9_CollectKeyIgnoredOutsideRetry ==
    (pc = "manual" /\ in_calibration) =>
        \A keys \in KeySeqs : \A i \in 1 .. Len(keys) :
            (keys[i] = collect_key /\ NotInRetryAt(keys, i)) =>
                ManualPlan(keys) = ManualPlan(Without(keys, i))

C9_Witness ==
    /\ pc = "manual"
    /\ in_calibration
    /\ current_point_index \notin retry_points
    /\ current_point_index # -1
    /\ ~collect_when_shrunk
    /\ previous_frame_width # None
    /\ calls = <<>>

\* the frames whose keys are attention-grabber toggles only
ToggleFrames ==
    {keys \in KeySeqs : keys # <<>> /\
        \A i \in 1 .. Len(keys) : Lower(keys[i]) = ATTENTION_GRAB_KEY}

AnimationCalls == {"setSize", "play", "stop", "wait", "collect"}

\* a frame on these keys leaves the animation, the cue state, the selected
\* index and the pending request as they are
LeavesAnimation(keys) ==
    LET f == ManualPlan(keys)
    IN /\ f.previous_frame_width = previous_frame_width
       /\ f.allow_grow_sound = allow_grow_sound
       /\ f.target_is_growing = target_is_growing
       /\ f.current_point_index = current_point_index
       /\ f.collect_when_shrunk = collect_when_shrunk
       /\ f.elapsed = Tick(elapsed, current_point_index, retry_points)

\* C10: a manual frame on which the attention grabber is shown sets no size,
\* plays and stops no cue and collects nothing; and a frame of toggle keys that
\* ends with the grabber shown (switched on, or off and on again) leaves
\* previous_frame_width, allow_grow_sound, target_is_growing, the selected
\* index and the pending request as they were
C10_GrabberFramesDoNothingElse ==
    /\ (pc = "manual" /\ show_att_grabber) =>
          \A i \in 1 .. Len(calls) : calls[i].op \notin AnimationCalls
    /\ (pc = "manual" /\ in_calibration) =>
          \A keys \in ToggleFrames :
              ManualPlan(keys).show_att_grabber => LeavesAnimation(keys)

C10_Witness ==
    /\ pc = "manual"
    /\ show_att_grabber
    /\ collect_when_shrunk
    /\ current_point_index \in retry_points
    /\ ~allow_grow_sound
    /\ HasCall(calls, "grabber.pause")

\* C11: the first call of main_calibration in a session runs
\* automated_calibration, every later call runs manual_calibration; a
\* calibration function runs alone until it returns; and the marker
\* automated_calib_done is set when the first call returns and never cleared
C11_AutomatedOnceThenManual ==
    [][/\ (pc = "update" /\ pc' # "update") =>
             pc' = IF rounds = 0 THEN "auto" ELSE "manual"
       /\ pc = "auto" => pc' \in {"auto", "results"}
       /\ pc = "manual" => pc' \in {"manual", "results"}
       /\ pc' = "results" => automated_calib_done'
       /\ automated_calib_done => automated_calib_done']_vars

C11_Witness ==
    /\ pc = "manual"
    /\ rounds = 2
    /\ automated_calib_done
    /\ calls # <<>>

\* a step that is one pass of the while loop of a calibration function
FrameStep == pc \in {"auto", "manual"} /\ pc' = pc

\* C12: in both modes a frame plays the cue exactly once if target_is_growing
\* turns from FALSE to TRUE on it and not at all otherwise, and stops the cue
\* exactly once if target_is_growing turns from TRUE to FALSE on it and not at
\* all otherwise; so the play calls never outnumber the growth onsets of the
\* widths drawn, nor the stop calls the shrink onsets
C12_CuePlayedOncePerOnset ==
    [][FrameStep =>
         /\ Len(Calls(calls', "play")) =
               IF ~target_is_growing /\ target_is_growing' THEN 1 ELSE 0
         /\ Len(Calls(calls', "stop")) =
               IF target_is_growing /\ ~target_is_growing' THEN 1 ELSE 0]_vars

C12_Witness ==
    /\ pc = "manual"
    /\ HasCall(calls, "stop")
    /\ ~target_is_growing
    /\ current_point_index \in retry_points

\* C13: over the whole calibration session a cue is played only while it is
\* not playing (no second play before its stop), and a stop is made only for a
\* cue that is playing, which is the cue most recently played
C13_OnePlayPerCueAtATime ==
    [][\A i \in 1 .. Len(calls') :
         /\ calls'[i].op = "play" => calls'[i].arg \notin playing
         /\ calls'[i].op = "stop" =>
               /\ calls'[i].arg \in playing
               /\ calls'[i].arg = grow_sound]_vars

\* the boundary B of a direction, and whether a position lies beyond the
\* boundary that the direction moves to
BoundaryOf(dir) ==
    IF dir \in {"LtR", "RtL"} THEN GAZE_TARGET_X_MAX ELSE GAZE_TARGET_Y_MAX

Beyond(dir, pos) ==
    CASE dir = "LtR" -> pos.x > GAZE_TARGET_X_MAX
      [] dir = "RtL" -> pos.x < -GAZE_TARGET_X_MAX
      [] dir = "TtB" -> pos.y < -GAZE_TARGET_Y_MAX
      [] dir = "BtT" -> pos.y > GAZE_TARGET_Y_MAX

\* ceil(a / b)
CeilDiv(a, b) == (a + b - 1) \div b

\* C14: a direction that starts at its edge is in motion exactly until the
\* frame on which the target first lies beyond the opposite boundary, and that
\* frame is frame ceil(2B/k) of the direction
C14_FramesToFinish ==
    pc = "move" =>
        /\ target_is_moving => ~Beyond(target_dir, target_pos)
        /\ ~target_is_moving =>
              /\ Beyond(target_dir, target_pos)
              /\ dir_frames = CeilDiv(2 * BoundaryOf(target_dir), step_size)

\* the gaze sample that the last validation frame took
SampleOf(log) == Calls(log, "sample")[1].arg

\* both coordinates of a sample are present
BothPresent(gaze) == gaze[1] # NaN /\ gaze[2] # NaN

\* d is the distance, in whole pixels, from gaze to pos
IsDistance(d, gaze, pos) ==
    LET sq == (gaze[1] - pos.x) * (gaze[1] - pos.x)
              + (gaze[2] - pos.y) * (gaze[2] - pos.y)
    IN d >= 0 /\ d * d <= sq /\ sq < (d + 1) * (d + 1)

\* C15: every frame of a validation run appends exactly one entry to
\* gaze_on_screen_inds: for a valid sample 1, together with exactly one
\* distance, to the target's position after the frame's move; for an invalid
\* sample 0 and no distance; so gaze_to_target_dists has as many entries as
\* gaze_on_screen_inds has ones
C15_OneEntryPerFrame ==
    [][pc = "run" =>
         LET gaze == SampleOf(calls')
             n == Len(gaze_on_screen_inds)
             m == Len(gaze_to_target_dists)
         IN /\ Len(Calls(calls', "sample")) = 1
            /\ SubSeq(gaze_on_screen_inds', 1, n) = gaze_on_screen_inds
            /\ Len(gaze_on_screen_inds') = n + 1
            /\ SubSeq(gaze_to_target_dists', 1, m) = gaze_to_target_dists
            /\ IF BothPresent(gaze)
               THEN /\ gaze_on_screen_inds'[n + 1] = 1
                    /\ Len(gaze_to_target_dists') = m + 1
                    /\ IsDistance(gaze_to_target_dists'[m + 1], gaze, target_pos')
               ELSE /\ gaze_on_screen_inds'[n + 1] = 0
                    /\ gaze_to_target_dists' = gaze_to_target_dists
            /\ Len(gaze_to_target_dists') = SeqSum(gaze_on_screen_inds')
            /\ Len(gaze_to_target_dists') <= Len(gaze_on_screen_inds')]_vars

C15_Witness ==
    /\ pc = "run"
    /\ Len(gaze_on_screen_inds) = 5
    /\ Len(gaze_to_target_dists) = 2
    /\ gaze_on_screen_inds[5] = 0
    /\ gaze_on_screen_inds[4] = 1

\* the statistics of the run that has just ended have been computed
SummaryShown == pc \in {"decision", "save", "closed"}

\* C16: when a validation run ends with no valid sample, the mean and the
\* standard deviation of the summary are both the missing marker, the
\* proportion is the one of gaze_on_screen_inds, and the script goes on through
\* showing and writing the summary without raising an error
C16_EmptyRunGivesMissingMarkers ==
    /\ (SummaryShown /\ gaze_to_target_dists = <<>>) =>
          /\ mean_target_dist = NaN
          /\ std_target_dist = NaN
          /\ prop_on_screen = PropOnScreen(gaze_on_screen_inds)
    /\ pc # "error"

\* a value that no distance statistic can have
NotANumber == {NaN, Unbound}

\* the three statistics are those of the lists dists and inds alone
OnlyOf(dists, inds, mean, std, prop) ==
    /\ IF dists # <<>>
       THEN mean = Mean(dists) /\ std = Std(dists)
       ELSE mean \in NotANumber /\ std \in NotANumber
    /\ IF inds # <<>>
       THEN prop = PropOnScreen(inds)
       ELSE prop \in NotANumber

\* C17: a repeat starts the next run with empty gaze_to_target_dists and
\* gaze_on_screen_inds, the full list of directions and no direction in
\* motion; and the summary shown and written after a run holds statistics of
\* that run's samples only, never a value left by an earlier run
C17_RepeatStartsFresh ==
    [][/\ (pc = "decision" /\ pc' = "run") =>
             /\ gaze_to_target_dists' = <<>>
             /\ gaze_on_screen_inds' = <<>>
             /\ target_dir_ls' = original_target_dir_ls
             /\ ~target_is_moving'
       /\ pc' \in {"decision", "save", "closed"} =>
             OnlyOf(gaze_to_target_dists', gaze_on_screen_inds',
                    mean_target_dist', std_target_dist', prop_on_screen')
       /\ pc' = "closed" =>
             saved' = <<[mean |-> mean_target_dist', std |-> std_target_dist',
                         prop |-> prop_on_screen']>>]_vars

\* the directions in the order a run is to take them
BackToFront ==
    [i \in 1 .. Len(original_target_dir_ls) |->
        original_target_dir_ls[Len(original_target_dir_ls) + 1 - i]]

\* the queue is empty and the last direction has finished
RunComplete == target_dir_ls = <<>> /\ ~target_is_moving /\ started # <<>>

\* C18: a validation run takes the four directions once each, from the back
\* of original_target_dir_ls to its front; it starts a direction only on a
\* frame that begins with no direction in motion; it is marked finished on
\* exactly the frame that leaves the queue empty and the last direction
\* finished; and every run that has started is finished after finitely many
\* frames, whatever the gaze samples are
C18_RunTakesFourDirectionsAndEnds ==
    /\ [](pc \in {"run", "summary", "decision"} =>
            /\ started = SubSeq(BackToFront, 1, Len(started))
            /\ Len(started) + Len(target_dir_ls) = Len(original_target_dir_ls)
            /\ validation_is_finished <=> RunComplete
            /\ pc = "run" <=> ~validation_is_finished)
    /\ [][(pc = "run" /\ started' # started) =>
            (~target_is_moving /\ Len(started') = Len(started) + 1)]_vars
    /\ [](pc = "run" => <>(pc = "summary" /\ started = BackToFront))

C18_Witness ==
    /\ pc = "summary"
    /\ runs = 2
    /\ started = <<"BtT", "RtL", "TtB", "LtR">>
    /\ target_pos = [x |-> 800, y |-> 0]

\* C19: when run_calibration has returned failure the only step is
\* core.quit(), after which the script does nothing: calibration is not
\* tried again, recording is not started, no validation run is started and
\* no summary row is written
C19_FailureAborts ==
    [][/\ pc = "failed" => (pc' = "quit" /\ rounds' = rounds)
       /\ pc # "quit"
       /\ pc' \in {"failed", "quit"} =>
             (~recording' /\ runs' = 0 /\ saved' = <<>>)]_vars

C19_Witness ==
    /\ pc = "quit"
    /\ HasCall(calls, "core.quit")
    /\ automated_calib_done
    /\ ~recording

\* m * w0 and (1 + m) * w0 for the point i
MinWidth(i) == (calibration_target_min * get_stim_original_size(i)) \div 1000
MaxWidth(i) == ((1000 + calibration_target_min) * get_stim_original_size(i)) \div 1000

\* every width that the calls of log set lies in set
SizesSetIn(log, set) ==
    \A i \in 1 .. Len(log) : log[i].op = "setSize" => log[i].arg \in set

\* the for loop over keys selects a point: it reaches a number key
SelectsPoint(keys) ==
    \E i \in 1 .. Len(keys) :
        /\ keys[i] \in NumKeys
        /\ \A j \in 1 .. i - 1 : keys[j] # exit_key

\* C20: in both modes the width of every target, and every width a frame
\* sets, is between m * w0 and (1 + m) * w0; and a frame on which a point is
\* activated or activated again (elapsed time 0) sets the width m * w0
C20_WidthWithinBounds ==
    /\ \A i \in Points : stim_size[i] \in MinWidth(i) .. MaxWidth(i)
    /\ SizesSetIn(calls, MinWidth(0) .. MaxWidth(0))
    /\ (pc = "auto" /\ HasCall(calls, "activate")) =>
          SizesSetIn(calls, {MinWidth(0)})
    /\ (pc = "manual" /\ in_calibration) =>
          \A keys \in KeySeqs :
              /\ SizesSetIn(ManualPlan(keys).calls, MinWidth(0) .. MaxWidth(0))
              /\ SelectsPoint(keys) =>
                    SizesSetIn(ManualPlan(keys).calls, {MinWidth(0)})

C20_Witness ==
    /\ pc = "manual"
    /\ HasCall(calls, "stop")
    /\ HasCall(calls, "setSize")
    /\ stim_size[0] = MinWidth(0)
    /\ current_point_index = 0

\* a frame on these keys draws a point other than the one that was active
\* before it: the first frame of a newly active point
DrawsNewPoint(keys) ==
    LET k == HandleKeys(LoopLocals, keys)
    IN /\ k.idx # current_point_index
       /\ k.idx \in retry_points
       /\ ~GrabberFrame(k.att)

\* the frames of one key that selects a point or hides the target
SelectFrames == {<<key>> : key \in NumKeys}

\* C21: the first frame of a newly active point (activated by the automation,
\* or selected by the operator) finds previous_frame_width reset to None, so
\* it plays no cue, stops no cue and counts no cycle
C21_ActivationResetsAnimation ==
    /\ [][(pc' = "auto" /\ HasCall(calls', "activate")) =>
            /\ previous_frame_width = None
            /\ ~HasCall(calls', "play")
            /\ ~HasCall(calls', "stop")
            /\ cycle_counter' = cycle_counter]_vars
    /\ []((pc = "manual" /\ in_calibration) =>
            \A keys \in SelectFrames :
                DrawsNewPoint(keys) =>
                    /\ previous_frame_width = None
                    /\ ~ManualPlan(keys).play
                    /\ ~ManualPlan(keys).stop)

\* C22: automated calibration leaves its loop after finitely many frames, with
\* the queue empty and no point active, whatever the retry set is when it is
\* entered
C22_AutomatedTerminates ==
    <>(AutoFinished /\ pos_nums = <<>> /\ ~target_activated)

\* C23: at every frame boundary of both calibration functions
\* allow_grow_sound is the negation of target_is_growing: the target is never
\* growing with the cue still armed, nor shrinking with the cue not armed again
C23_ArmedIsNotGrowing ==
    pc \in {"auto", "manual"} => (allow_grow_sound <=> ~target_is_growing)

C23_Witness ==
    /\ pc = "manual"
    /\ in_calibration
    /\ previous_frame_width # None
    /\ target_is_growing
    /\ ~allow_grow_sound
    /\ ~HasCall(calls, "play")
    /\ HasCall(calls, "setSize")

\* the lists of at most one key
ShortSeqs == {<<>>} \cup {<<key>> : key \in Keys}

\* the for loop over keys leaves a request armed for the index idx
ArmsFor(keys, idx) ==
    LET k == HandleKeys(LoopLocals, keys)
    IN k.collect /\ k.idx = idx /\ HasCall(k.log, "request")

\* C24: the keys of a manual frame are handled in arrival order before the
\* frame's animation and collection: with no request pending, a number key
\* followed by the collect key arms collection for the newly selected point if
\* it is in the retry set, the collect key followed by the number key of
\* another index leaves nothing armed for that index, and a key that follows
\* the exit key in the same frame changes nothing of the frame
C24_KeysInArrivalOrder ==
    (pc = "manual" /\ in_calibration /\ ~collect_when_shrunk) =>
        /\ \A key \in NumKeys :
              /\ numkey_dict[key] \in retry_points =>
                    ArmsFor(<<key, collect_key>>, numkey_dict[key])
              /\ numkey_dict[key] # current_point_index =>
                    ~ArmsFor(<<collect_key, key>>, numkey_dict[key])
        /\ \A keys \in ShortSeqs, key \in Keys :
              ManualPlan(keys \o <<exit_key, key>>) = ManualPlan(keys \o <<exit_key>>)

\* C25: in automated mode a frame that makes a collect call ends with the
\* target not growing, the cue armed again and no cue playing (every cue that
\* was played has been stopped); so no cue is playing when the function has
\* left its loop
C25_AutoCollectsWithCueStopped ==
    pc = "auto" =>
        /\ HasCall(calls, "collect") =>
              /\ ~target_is_growing
              /\ allow_grow_sound
              /\ ~HasCall(calls, "play")
              /\ playing = {}
        /\ ~in_calibration => playing = {}

C25_Witness ==
    /\ pc = "auto"
    /\ ~in_calibration
    /\ HasCall(calls, "collect")
    /\ grow_sound \in Sounds
    /\ playing = {}

====
